---------------------------- MODULE Spec2Model ----------------------------
(***************************************************************************)
(* Model of the tag-based recommendation engine of StudyBits-API           *)
(* (src/Blueprints/QuestionMatcher.py): the tag normaliser split_tags, the *)
(* scan find_relevant_questions, the ranker group_and_rank and the route   *)
(* find_similar_courses.                                                   *)
(*                                                                         *)
(* A string is a sequence of one-character strings, so that lower(),       *)
(* re.sub(), split() and word[:-1] are computed character by character.    *)
(* Ratios are compared by cross-multiplication of integers; a priority is  *)
(* an integer number of hundredths (round(x, 2) * 100).                    *)
(***************************************************************************)
EXTENDS Integers, Sequences, FiniteSets, TLC

VARIABLES
    pc,             \* position of the running computation
    tags,           \* split_tags: the raw tag list given to it
    words,          \* split_tags: the set it returned
    again,          \* split_tags of the returned words, re-fed as single-word tags
    db,             \* the document store (read-only)
    request,        \* the JSON body of the request
    args,           \* the arguments of find_relevant_questions
    idx,            \* find_relevant_questions: position of the stream
    matched,        \* find_relevant_questions: the candidates so far
    outcome,        \* per streamed question, the branch that ended its iteration
    grouped,        \* group_and_rank: the groups, in insertion order
    sorted_groups,  \* group_and_rank: the groups after sorted()
    top_results,    \* group_and_rank: the truncated, shuffled groups
    result,         \* group_and_rank: the list it returned
    response,       \* the HTTP response of the route
    fault,          \* the document whose fetch raised, if any
    reads           \* the kinds of document read so far

normVars == <<tags, words, again>>
storeVars == <<db, request>>
scanVars == <<args, idx, matched, outcome>>
rankVars == <<grouped, sorted_groups, top_results, result>>
vars ==
    <<pc, tags, words, again, db, request, args, idx, matched, outcome, grouped,
      sorted_groups, top_results, result, response, fault, reads>>

(***************************************************************************)
(* Bounds of the model.                                                    *)
(***************************************************************************)
MaxLen == 4        \* longest raw tag drawn character by character
MaxQuestions == 2  \* most documents in the questions collection
MaxMatched == 3    \* most candidates handed to group_and_rank

(***************************************************************************)
(* Characters.                                                             *)
(***************************************************************************)
Whitespace == {" "}
Punctuation == {"!", ".", "-", "/"}

\* str.lower() on one character
LowerChar(c) ==
    CASE c = "A" -> "a"
      [] c = "B" -> "b"
      [] c = "S" -> "s"
      [] OTHER -> c

\* \w of the re module: letters, digits and the underscore, that is every
\* character of the model but whitespace and punctuation
IsWordChar(c) == c \notin Whitespace \cup Punctuation

IsSpace(c) == c \in Whitespace

MapSeq(s, Op(_)) == [i \in 1..Len(s) |-> Op(s[i])]

\* tag.lower()
Lower(s) == MapSeq(s, LowerChar)

\* re.sub(r"[-/]", " ", tag)
DashToSpaceChar(c) == IF c \in {"-", "/"} THEN " " ELSE c
SubDashSlash(s) == MapSeq(s, DashToSpaceChar)

\* re.sub(r"[^\w\s]", "", tag)
KeepChar(c) == IsWordChar(c) \/ IsSpace(c)
SubNonWord(s) == SelectSeq(s, KeepChar)

\* tag.split(): the maximal runs of non-whitespace characters, in order
RECURSIVE SplitFrom(_, _, _)
SplitFrom(s, i, cur) ==
    IF i > Len(s)
    THEN IF cur = <<>> THEN <<>> ELSE <<cur>>
    ELSE IF IsSpace(s[i])
         THEN IF cur = <<>>
              THEN SplitFrom(s, i + 1, <<>>)
              ELSE <<cur>> \o SplitFrom(s, i + 1, <<>>)
         ELSE SplitFrom(s, i + 1, Append(cur, s[i]))

Split(s) == SplitFrom(s, 1, <<>>)

\* word.strip()
RECURSIVE LStrip(_)
LStrip(s) == IF s # <<>> /\ IsSpace(Head(s)) THEN LStrip(Tail(s)) ELSE s
RECURSIVE RStrip(_)
RStrip(s) ==
    IF s # <<>> /\ IsSpace(s[Len(s)]) THEN RStrip(SubSeq(s, 1, Len(s) - 1)) ELSE s
Strip(s) == LStrip(RStrip(s))

STOPWORDS ==
    { <<"t", "h", "e">>, <<"a", "n", "d">>, <<"o", "r">>, <<"o", "f">>, <<"a">>,
      <<"a", "n">>, <<"i", "n">>, <<"o", "n">>, <<"t", "o">>, <<"f", "o", "r">>,
      <<"b", "y">>, <<"w", "i", "t", "h">>, <<"a", "t">>, <<"f", "r", "o", "m">>,
      <<"a", "s">>, <<"i", "s">> }

\* the length a word must exceed to lose its trailing "s"
SingularMinLen == 3

\* a slip in the length test: ">= 3" for "> 3"
IsPluralLike_Geq(w) == Len(w) > 0 /\ w[Len(w)] = "s" /\ Len(w) >= SingularMinLen

\* word.endswith("s") and len(word) > 3
IsPluralLike(w) == Len(w) > 0 /\ w[Len(w)] = "s" /\ Len(w) > SingularMinLen

\* lines 29-30: word = word[:-1] for such a word
Singularize(w) == IF IsPluralLike(w) THEN SubSeq(w, 1, Len(w) - 1) ELSE w

\* line 27: the words the loop skips
IsDropped(w) == w \in STOPWORDS \/ Strip(w) = <<>>

\* lines 23-26: the words of one tag
TagWords(tag) == Split(SubNonWord(SubDashSlash(Lower(tag))))

\* lines 26-31: the words one tag adds to the set
WordsOfTag(tag) ==
    LET ws == TagWords(tag)
    IN  { Singularize(ws[i]) : i \in { j \in 1..Len(ws) : ~IsDropped(ws[j]) } }

\* split_tags over a sequence of tags
split_tags(ts) == UNION { WordsOfTag(ts[i]) : i \in 1..Len(ts) }

\* split_tags over a set of tags (a set is iterable: the returned words re-fed)
split_tags_set(S) == UNION { WordsOfTag(t) : t \in S }

(***************************************************************************)
(* Raw tags and words used by the sample documents.                        *)
(***************************************************************************)
T_AlgebraBasics ==
    <<"A", "l", "g", "e", "b", "r", "a", " ", "B", "a", "s", "i", "c", "s">>
T_math == <<"m", "a", "t", "h">>
T_cats == <<"c", "a", "t", "s">>
T_gas == <<"g", "a", "s">>
T_as == <<"a", "s">>
T_class == <<"c", "l", "a", "s", "s">>
W_algebra == <<"a", "l", "g", "e", "b", "r", "a">>
W_basic == <<"b", "a", "s", "i", "c">>
W_math == T_math
W_cat == <<"c", "a", "t">>
W_gas == T_gas
W_ga == <<"g", "a">>

SampleTags == {T_AlgebraBasics, T_math, T_cats, T_gas, T_as, T_class}

T_algebra == <<"a", "l", "g", "e", "b", "r", "a">>

(***************************************************************************)
(* The document store: courses/{id}, courses/{id}/units/{id},              *)
(* questions/{id} and learning/{uid}/courses/{id}.                         *)
(***************************************************************************)
None == "None"

\* "not x" of Python for an identifier that is a string or None
Falsy(x) == x = None \/ x = ""

Absent == [exists |-> FALSE]

CourseDoc(name, rawTags) == [exists |-> TRUE, name |-> name, tags |-> rawTags]

C1Doc == CourseDoc("Algebra", <<T_algebra, T_math>>)
C2Doc == CourseDoc("Pets", <<T_cats>>)
U1Doc == CourseDoc("Gases", <<T_gas>>)

CourseIds == {"c1", "c2", "c3"}
UnitIds == {"u1"}

\* questions/{id} without its id: raw tags, course, unit, cached course name
QuestionDoc(rawTags, course, unit, cname) ==
    [tags |-> rawTags, course |-> course, unit |-> unit, course_name |-> cname]

\* the sample question documents, by name
SampleDocs == {"QA", "QC", "QD", "QE"}

DocOf(name) ==
    CASE name = "QA" -> QuestionDoc(<<T_AlgebraBasics>>, "c3", None, "")
      [] name = "QC" -> QuestionDoc(<<T_math>>, "c1", "u1", "Algebra")
      [] name = "QD" -> QuestionDoc(<<T_as>>, "c3", "", "")
      [] name = "QE" ->
           QuestionDoc(<<T_AlgebraBasics, T_cats, T_gas>>, "c1", None, "Old name")

\* the content of courses/{id} and of courses/{id}/units/{id} where they exist
CourseContent(course_id) == IF course_id = "c1" THEN C1Doc ELSE C2Doc
UnitContent(course_id, unit_id) == U1Doc

QuestionId(i) == <<"q", i>>

\* a questions collection: up to MaxQuestions distinct documents of D, in stream
\* order; the document streamed i-th has the id QuestionId(i)
QuestionListsOf(D) ==
    UNION { { qs \in [1..n -> D] : \A i, j \in 1..n : qs[i] = qs[j] => i = j } :
            n \in 1..MaxQuestions }

QuestionLists == QuestionListsOf(SampleDocs)

\* learning/{uid}/courses/{course}
LearningDoc(liked, disliked, answered, subscribed) ==
    [exists |-> TRUE, empty |-> FALSE,
     likedQuestions |-> liked, dislikedQuestions |-> disliked,
     answeredQuestions |-> answered, subscribedCourses |-> subscribed]

\* a learning document that exists and holds no field: to_dict() is {}
L0 == [LearningDoc(<<>>, <<>>, <<>>, <<>>) EXCEPT !.empty = TRUE]
L1 == LearningDoc(<<QuestionId(1)>>, <<QuestionId(2)>>, <<QuestionId(1)>>, <<"c1">>)

\* the one learning record the store may hold
LearningKey == <<"ann", "c1">>

\* a store: the streamed question documents, the ids of the course and unit
\* documents that exist, and the learning record
Store(qs, cs, us, learning) ==
    [questions |-> qs, courses |-> cs, units |-> us, learning |-> learning]

\* db.collection("courses").document(course_id).get()
CourseGet(course_id) ==
    IF course_id \in db.courses THEN CourseContent(course_id) ELSE Absent

\* db.collection("courses").document(course_id).collection("units").document(unit_id).get()
UnitGet(course_id, unit_id) ==
    IF <<course_id, unit_id>> \in db.units
    THEN UnitContent(course_id, unit_id)
    ELSE Absent

\* db.collection("questions").document(qid).get()
QuestionGet(qid) ==
    IF \E i \in 1..Len(db.questions) : QuestionId(i) = qid
    THEN [exists |-> TRUE,
          doc |-> DocOf(db.questions[CHOOSE i \in 1..Len(db.questions) :
                                        QuestionId(i) = qid])]
    ELSE Absent

(***************************************************************************)
(* Tag aggregator (lines 34-77).                                           *)
(***************************************************************************)
RECURSIVE get_question_tags(_)
get_question_tags(question_ids) ==
    IF question_ids = <<>>
    THEN {}
    ELSE LET d == QuestionGet(Head(question_ids))
         IN  (IF d.exists THEN split_tags(d.doc.tags) ELSE {})
                \cup get_question_tags(Tail(question_ids))

\* a slip: the tags of the course are used without the doc.exists test
get_course_tags_NoExistsCheck(course_id) == split_tags(CourseContent(course_id).tags)

get_course_tags(course_id) ==
    LET d == CourseGet(course_id)
    IN  IF d.exists THEN split_tags(d.tags) ELSE {}

get_unit_tags(course_id, unit_id) ==
    IF Falsy(unit_id)
    THEN {}
    ELSE LET d == UnitGet(course_id, unit_id)
         IN  IF d.exists THEN split_tags(d.tags) ELSE {}

get_effective_tags(question) ==
    split_tags(question.tags)
        \cup get_course_tags(question.course)
        \cup get_unit_tags(question.course, question.unit)

(***************************************************************************)
(* Relevance filter and scorer: find_relevant_questions (lines 79-151).    *)
(***************************************************************************)
Ratio(n, d) == [num |-> n, den |-> d]

\* a / b > t and a / b < t for b > 0 and a threshold t = num / den, den > 0
RatioGreater(a, b, t) == a * t.den > t.num * b
RatioLess(a, b, t) == a * t.den < t.num * b

DefaultMatchThreshold == Ratio(1, 2)
DefaultDislikedThreshold == Ratio(2, 5)

\* round(a / b, 2) in hundredths, for a >= 0 and b > 0 (ties go to the even digit)
RoundHundredths(a, b) ==
    LET q == (100 * a) \div b
        r == (100 * a) % b
    IN  IF 2 * r < b THEN q
        ELSE IF 2 * r > b THEN q + 1
        ELSE IF q % 2 = 0 THEN q ELSE q + 1

\* line 93
CurriculumTags(a) == a.course_tags \cup a.unit_tags

\* line 106: "-" binds tighter than "&"
DisallowedDisliked(effective, a) ==
    effective \cap (a.disliked_tags \ CurriculumTags(a))

\* a slip in line 108: ">=" for ">"
TooManyDisliked_Geq(effective, a) ==
    ~RatioLess(Cardinality(DisallowedDisliked(effective, a)),
               Cardinality(effective), a.disliked_threshold)

\* line 108
TooManyDisliked(effective, a) ==
    RatioGreater(Cardinality(DisallowedDisliked(effective, a)),
                 Cardinality(effective), a.disliked_threshold)

\* a slip in line 118: "<=" for "<"
MatchTooLow_Leq(effective, a) ==
    ~RatioGreater(Cardinality(effective \cap CurriculumTags(a)),
                  Cardinality(CurriculumTags(a)), a.match_threshold)

\* line 118
MatchTooLow(effective, a) ==
    RatioLess(Cardinality(effective \cap CurriculumTags(a)),
              Cardinality(CurriculumTags(a)), a.match_threshold)

\* a slip: the penalty of line 132 for an answered question left out
Priority_NoAnsweredPenalty(q, qid, effective, a) ==
    RoundHundredths(2 * Cardinality(effective \cap a.liked_tags), Cardinality(effective))
      + (IF q.course \in a.subscribed_courses THEN 100 ELSE 0)
      + (IF q.course = a.reference_course_id THEN 100 ELSE 0)
      + (IF ~Falsy(a.reference_unit_id) /\ q.unit = a.reference_unit_id THEN 100 ELSE 0)

\* lines 122-134, in hundredths
Priority(q, qid, effective, a) ==
    RoundHundredths(2 * Cardinality(effective \cap a.liked_tags), Cardinality(effective))
      + (IF q.course \in a.subscribed_courses THEN 100 ELSE 0)
      + (IF q.course = a.reference_course_id THEN 100 ELSE 0)
      + (IF ~Falsy(a.reference_unit_id) /\ q.unit = a.reference_unit_id THEN 100 ELSE 0)
      + (IF qid \in a.answered_questions THEN -100 ELSE 0)

\* lines 141-149
Candidate(q, qid, effective, a) ==
    [course_id |-> q.course, course_name |-> q.course_name, unit_id |-> q.unit,
     unit_name |-> "", question_id |-> qid,
     score |-> Cardinality(effective \cap a.liked_tags),
     priority |-> Priority(q, qid, effective, a)]

\* a slip: the curriculum-match test of lines 116-120 left out
Verdict_NoMatchFilter(effective, a) ==
    IF effective = {} THEN "no_effective_tags"
    ELSE IF TooManyDisliked(effective, a) THEN "too_many_disliked"
    ELSE IF Cardinality(CurriculumTags(a)) = 0 THEN "no_curriculum"
    ELSE "matched"

\* the branch that ends the iteration of one streamed question (lines 101-149)
Verdict(effective, a) ==
    IF effective = {} THEN "no_effective_tags"
    ELSE IF TooManyDisliked(effective, a) THEN "too_many_disliked"
    ELSE IF Cardinality(CurriculumTags(a)) = 0 THEN "no_curriculum"
    ELSE IF MatchTooLow(effective, a) THEN "match_too_low"
    ELSE "matched"

\* the reads of one iteration that can raise: the streamed document, the course
\* document and, for a question with a unit, the unit document
FetchesOf(q) ==
    {"question", "course"} \cup (IF Falsy(q.unit) THEN {} ELSE {"unit"})

\* one iteration of the loop of line 96; no try/except surrounds any read
ScanStep ==
    /\ pc = "scan"
    /\ idx <= Len(db.questions)
    /\ LET q == DocOf(db.questions[idx])
           qid == QuestionId(idx)
           effective == get_effective_tags(q)
           v == Verdict(effective, args)
       IN  \/ /\ outcome' = Append(outcome, v)
              /\ matched' = IF v = "matched"
                            THEN Append(matched, Candidate(q, qid, effective, args))
                            ELSE matched
              /\ idx' = idx + 1
              /\ reads' = reads \cup {"questions", "tags"}
              /\ UNCHANGED <<pc, fault>>
           \/ \E f \in FetchesOf(q) :
                /\ pc' = "raised"
                /\ fault' = <<f, qid>>
                /\ reads' = reads \cup {"questions"}
                /\ UNCHANGED <<idx, matched, outcome>>
    /\ UNCHANGED <<args, response>>
    /\ UNCHANGED <<normVars, storeVars, rankVars>>

\* line 151: the stream is exhausted
ScanReturn ==
    /\ pc = "scan"
    /\ idx > Len(db.questions)
    /\ pc' = "scanned"
    /\ UNCHANGED <<normVars, storeVars, scanVars, rankVars, response, fault, reads>>

(***************************************************************************)
(* Grouper and ranker: group_and_rank (lines 153-203).                     *)
(***************************************************************************)
KeyOf(x) == <<x.course_id, x.unit_id>>

\* lines 156-169: one item added to the dict, which keeps insertion order
AddItem(groups, item) ==
    IF \E i \in 1..Len(groups) : KeyOf(groups[i]) = KeyOf(item)
    THEN [i \in 1..Len(groups) |->
            IF KeyOf(groups[i]) = KeyOf(item)
            THEN [groups[i] EXCEPT !.questions = Append(@, item.question_id),
                                   !.priority = @ + item.priority,
                                   !.total_score = @ + item.score]
            ELSE groups[i]]
    ELSE Append(groups,
                [course_id |-> item.course_id, unit_id |-> item.unit_id,
                 questions |-> <<item.question_id>>, priority |-> item.priority,
                 total_score |-> item.score, course_name |-> "", unit_name |-> ""])

RECURSIVE GroupItems(_, _)
GroupItems(items, groups) ==
    IF items = <<>>
    THEN groups
    ELSE GroupItems(Tail(items), AddItem(groups, Head(items)))

\* lines 171-179: the display names, one lookup per group
WithNames(g) ==
    LET c == CourseGet(g.course_id)
        u == UnitGet(g.course_id, g.unit_id)
    IN  [g EXCEPT !.course_name = IF c.exists THEN c.name ELSE "",
                  !.unit_name = IF ~Falsy(g.unit_id) /\ u.exists THEN u.name ELSE ""]

\* a slip in the sort key: the score left out
KeyLess_NoScore(a, b) == a.priority > b.priority

\* key=lambda g: (-g["priority"], -g["total_score"]): a sorts strictly before b
KeyLess(a, b) ==
    \/ a.priority > b.priority
    \/ a.priority = b.priority /\ a.total_score > b.total_score

\* x inserted after every element that does not sort strictly after it
InsertStable(s, x) ==
    LET n == Cardinality({ i \in 1..Len(s) : ~KeyLess(x, s[i]) })
    IN  SubSeq(s, 1, n) \o <<x>> \o SubSeq(s, n + 1, Len(s))

\* sorted(): stable
RECURSIVE SortStable(_, _)
SortStable(items, done) ==
    IF items = <<>>
    THEN done
    ELSE SortStable(Tail(items), InsertStable(done, Head(items)))

sorted(groups) == SortStable(groups, <<>>)

\* s[:k] of Python
SlicePrefix(s, k) ==
    IF k >= 0
    THEN SubSeq(s, 1, IF k < Len(s) THEN k ELSE Len(s))
    ELSE SubSeq(s, 1, IF Len(s) + k > 0 THEN Len(s) + k ELSE 0)

\* the orders random.shuffle can leave a list in
Shuffles(s) ==
    { [i \in 1..Len(s) |-> s[p[i]]] :
        p \in { f \in [1..Len(s) -> 1..Len(s)] :
                  \A i, j \in 1..Len(s) : f[i] = f[j] => i = j } }

\* lines 194-203
Summary(g) ==
    [course_id |-> g.course_id, course_name |-> g.course_name,
     unit_id |-> g.unit_id, unit_name |-> g.unit_name, questions |-> g.questions]

\* lines 154-179
Group ==
    /\ pc = "scanned"
    /\ LET gs == GroupItems(matched, <<>>)
       IN  \/ /\ grouped' = [i \in 1..Len(gs) |-> WithNames(gs[i])]
              /\ pc' = "grouped"
              /\ reads' = IF gs = <<>> THEN reads ELSE reads \cup {"names"}
              /\ UNCHANGED fault
           \/ \E i \in 1..Len(gs) :
                /\ pc' = "raised"
                /\ fault' = <<"name", KeyOf(gs[i])>>
                /\ reads' = reads \cup {"names"}
                /\ UNCHANGED grouped
    /\ UNCHANGED <<sorted_groups, top_results, result, response>>
    /\ UNCHANGED <<normVars, storeVars, scanVars>>

\* lines 181-184
Sort ==
    /\ pc = "grouped"
    /\ sorted_groups' = sorted(grouped)
    /\ pc' = "sorted"
    /\ UNCHANGED <<grouped, top_results, result, response, fault, reads>>
    /\ UNCHANGED <<normVars, storeVars, scanVars>>

\* lines 191-192
TruncateShuffle ==
    /\ pc = "sorted"
    /\ top_results' \in Shuffles(SlicePrefix(sorted_groups, request.top_k))
    /\ pc' = "shuffled"
    /\ UNCHANGED <<grouped, sorted_groups, result, response, fault, reads>>
    /\ UNCHANGED <<normVars, storeVars, scanVars>>

\* lines 194-203
ReturnGroups ==
    /\ pc = "shuffled"
    /\ result' = [i \in 1..Len(top_results) |-> Summary(top_results[i])]
    /\ pc' = "ranked"
    /\ UNCHANGED <<grouped, sorted_groups, top_results, response, fault, reads>>
    /\ UNCHANGED <<normVars, storeVars, scanVars>>

(***************************************************************************)
(* The route find_similar_courses (lines 207-256).                         *)
(***************************************************************************)
DefaultTopK == 5

NoResponse == [status |-> 0, body |-> <<>>]
ErrorResponse(code) == [status |-> code, body |-> <<>>]

NoArgs ==
    [liked_tags |-> {}, disliked_tags |-> {}, course_tags |-> {}, unit_tags |-> {},
     answered_questions |-> {}, subscribed_courses |-> {},
     match_threshold |-> DefaultMatchThreshold,
     disliked_threshold |-> DefaultDislikedThreshold,
     reference_course_id |-> None, reference_unit_id |-> None]

Range(s) == { s[i] : i \in 1..Len(s) }

\* get_user_learning_state (lines 15-18): the record, or None
LearningGet(uid, course) ==
    IF <<uid, course>> = LearningKey THEN db.learning ELSE Absent

\* "not user_data": no document, or a document without any field
NoUserData(d) == IF d.exists THEN d.empty ELSE TRUE

\* a slip: the learning record fetched before the required fields are tested
ParseRequest_FetchFirst ==
    /\ pc = "start"
    /\ reads' = reads \cup {"learning"}
    /\ IF Falsy(request.uid) \/ Falsy(request.course_id)
       THEN /\ response' = ErrorResponse(400)
            /\ pc' = "done"
       ELSE /\ pc' = "validated"
            /\ UNCHANGED response
    /\ UNCHANGED fault
    /\ UNCHANGED <<normVars, storeVars, scanVars, rankVars>>

\* lines 209-217
ParseRequest ==
    /\ pc = "start"
    /\ IF Falsy(request.uid) \/ Falsy(request.course_id)
       THEN /\ response' = ErrorResponse(400)
            /\ pc' = "done"
       ELSE /\ pc' = "validated"
            /\ UNCHANGED response
    /\ UNCHANGED <<fault, reads>>
    /\ UNCHANGED <<normVars, storeVars, scanVars, rankVars>>

\* lines 221-223
GetUserLearningState ==
    /\ pc = "validated"
    /\ reads' = reads \cup {"learning"}
    /\ \/ /\ NoUserData(LearningGet(request.uid, request.course_id))
          /\ response' = ErrorResponse(404)
          /\ pc' = "done"
          /\ UNCHANGED fault
       \/ /\ ~NoUserData(LearningGet(request.uid, request.course_id))
          /\ pc' = "found"
          /\ UNCHANGED <<response, fault>>
       \/ /\ pc' = "raised"
          /\ fault' = <<"learning", request.uid>>
          /\ UNCHANGED response
    /\ UNCHANGED <<normVars, storeVars, scanVars, rankVars>>

\* line 238: the unit of the request is used when useUnits is set and unit_id is not empty
UseUnit(req) == req.useUnits /\ ~Falsy(req.unit_id)

\* a slip: the unit of the request handed to the scan whatever useUnits says
RouteArgs_UnitAlways(req, user_data) ==
    [liked_tags |-> get_question_tags(user_data.likedQuestions),
     disliked_tags |-> get_question_tags(user_data.dislikedQuestions),
     course_tags |-> get_course_tags(req.course_id),
     unit_tags |-> IF UseUnit(req) THEN get_unit_tags(req.course_id, req.unit_id) ELSE {},
     answered_questions |-> Range(user_data.answeredQuestions),
     subscribed_courses |-> Range(user_data.subscribedCourses),
     match_threshold |-> DefaultMatchThreshold,
     disliked_threshold |-> DefaultDislikedThreshold,
     reference_course_id |-> req.course_id,
     reference_unit_id |-> req.unit_id]

\* lines 225-251: the arguments the route hands to find_relevant_questions
RouteArgs(req, user_data) ==
    [liked_tags |-> get_question_tags(user_data.likedQuestions),
     disliked_tags |-> get_question_tags(user_data.dislikedQuestions),
     course_tags |-> get_course_tags(req.course_id),
     unit_tags |-> IF UseUnit(req) THEN get_unit_tags(req.course_id, req.unit_id) ELSE {},
     answered_questions |-> Range(user_data.answeredQuestions),
     subscribed_courses |-> Range(user_data.subscribedCourses),
     match_threshold |-> DefaultMatchThreshold,
     disliked_threshold |-> DefaultDislikedThreshold,
     reference_course_id |-> req.course_id,
     reference_unit_id |-> IF req.useUnits THEN req.unit_id ELSE None]

\* lines 225-251: the tag sets of the request and the call of the scan
PrepareScan ==
    /\ pc = "found"
    /\ LET user_data == LearningGet(request.uid, request.course_id)
       IN  /\ reads' = reads \cup {"tags"}
                          \cup (IF UseUnit(request) THEN {"reference_unit"} ELSE {})
           /\ \/ /\ args' = RouteArgs(request, user_data)
                 /\ pc' = "scan"
                 /\ UNCHANGED fault
              \/ \E f \in {"course_tags"}
                            \cup (IF UseUnit(request) THEN {"unit_tags"} ELSE {})
                            \cup (IF user_data.likedQuestions = <<>> THEN {} ELSE {"liked"})
                            \cup (IF user_data.dislikedQuestions = <<>> THEN {} ELSE {"disliked"}) :
                   /\ pc' = "raised"
                   /\ fault' = <<f, request.course_id>>
                   /\ UNCHANGED args
    /\ UNCHANGED <<idx, matched, outcome, response>>
    /\ UNCHANGED <<normVars, storeVars, rankVars>>

\* lines 253-256
Respond ==
    /\ pc = "ranked"
    /\ response' = [status |-> 200, body |-> result]
    /\ pc' = "done"
    /\ UNCHANGED <<normVars, storeVars, scanVars, rankVars, fault, reads>>

\* no handler catches an exception of the route: the framework answers 500
InternalError ==
    /\ pc = "raised"
    /\ response' = ErrorResponse(500)
    /\ pc' = "done"
    /\ UNCHANGED <<normVars, storeVars, scanVars, rankVars, fault, reads>>

(***************************************************************************)
(* split_tags as a pure function: inputs drawn from bounded sets.          *)
(***************************************************************************)
NormAlphabet == {"a", "e", "h", "s", "t", "S", " ", "-", "!"}

RawStrings == UNION { [1..n -> NormAlphabet] : n \in 0..MaxLen }

NormInputs ==
    {<<>>} \cup { <<t>> : t \in RawStrings \cup SampleTags }
           \cup { <<t, u>> : t \in SampleTags, u \in SampleTags }

NoWords == {<<"-">>}    \* placeholder for "not computed yet" (no word holds "-")

NoRequest ==
    [uid |-> None, course_id |-> None, unit_id |-> None, useUnits |-> FALSE,
     top_k |-> DefaultTopK]

SampleStore == Store(<<"QA", "QE">>, {"c1", "c2"}, {<<"c1", "u1">>}, L1)

IdleNorm == tags = <<>> /\ words = NoWords /\ again = NoWords
IdleScan == args = NoArgs /\ idx = 1 /\ matched = <<>> /\ outcome = <<>>
IdleRank ==
    grouped = <<>> /\ sorted_groups = <<>> /\ top_results = <<>> /\ result = <<>>
IdleRoute == response = NoResponse /\ fault = <<>> /\ reads = {}

InitNorm ==
    /\ pc = "norm"
    /\ tags \in NormInputs
    /\ words = NoWords
    /\ again = NoWords
    /\ db = SampleStore
    /\ request = NoRequest
    /\ IdleScan /\ IdleRank /\ IdleRoute

\* words = split_tags(tags)
Normalize ==
    /\ pc = "norm"
    /\ words' = split_tags(tags)
    /\ pc' = "normalized"
    /\ UNCHANGED <<tags, again>>
    /\ UNCHANGED <<storeVars, scanVars, rankVars, response, fault, reads>>

\* again = split_tags(words)
Renormalize ==
    /\ pc = "normalized"
    /\ again' = split_tags_set(words)
    /\ pc' = "renormalized"
    /\ UNCHANGED <<tags, words>>
    /\ UNCHANGED <<storeVars, scanVars, rankVars, response, fault, reads>>

NextNorm == Normalize \/ Renormalize

SpecNorm == InitNorm /\ [][NextNorm]_vars

(***************************************************************************)
(* find_relevant_questions called with arguments drawn from bounded sets.  *)
(***************************************************************************)
ScanArgs ==
    [liked_tags : {{}, {W_algebra}},
     disliked_tags : {{}, {W_cat, W_gas}, {W_cat, W_gas, W_basic}},
     course_tags : {{}, {W_algebra, W_math}, {W_cat}},
     unit_tags : {{}, {W_gas}},
     answered_questions : {{QuestionId(1)}},
     subscribed_courses : {{"c1"}},
     match_threshold : {Ratio(0, 1), Ratio(1, 2), Ratio(1, 1)},
     disliked_threshold : {Ratio(0, 1), Ratio(2, 5)},
     reference_course_id : {"c1"},
     reference_unit_id : {"u1"}]

InitScan ==
    /\ pc = "scan"
    /\ \E qs \in QuestionLists : db = Store(qs, {"c1", "c2"}, {<<"c1", "u1">>}, Absent)
    /\ request = NoRequest
    /\ args \in ScanArgs
    /\ idx = 1 /\ matched = <<>> /\ outcome = <<>>
    /\ IdleNorm /\ IdleRank /\ IdleRoute

NextScan == ScanStep \/ ScanReturn

SpecScan == InitScan /\ [][NextScan]_vars

(***************************************************************************)
(* group_and_rank called with candidates drawn from bounded sets.          *)
(***************************************************************************)
RankKeys == {<<"c1", None>>, <<"c1", "">>, <<"c2", "u1">>}

\* <<priority in hundredths, score>> of a candidate
RankMarks == {<<-100, 0>>, <<100, 0>>, <<100, 1>>}

TopKs == {-1, 0, 2, DefaultTopK}

MatchedLists ==
    UNION { { [i \in 1..n |->
                [course_id |-> ks[i][1], course_name |-> "", unit_id |-> ks[i][2],
                 unit_name |-> "", question_id |-> QuestionId(i),
                 score |-> ms[i][2], priority |-> ms[i][1]]] :
              ks \in [1..n -> RankKeys], ms \in [1..n -> RankMarks] } :
            n \in 0..MaxMatched }

InitRank ==
    /\ pc = "scanned"
    /\ db = SampleStore
    /\ \E k \in TopKs : request = [NoRequest EXCEPT !.top_k = k]
    /\ matched \in MatchedLists
    /\ args = NoArgs /\ idx = 1 /\ outcome = <<>>
    /\ IdleNorm /\ IdleRank /\ IdleRoute

NextRank == Group \/ Sort \/ TruncateShuffle \/ ReturnGroups

SpecRank == InitRank /\ [][NextRank]_vars

(***************************************************************************)
(* The route, over a store and a request drawn from bounded sets.          *)
(***************************************************************************)
Requests ==
    [uid : {None, "ann"}, course_id : {None, "c1", "c2"}, unit_id : {None, "u1"},
     useUnits : BOOLEAN, top_k : {-1, DefaultTopK}]

Init ==
    /\ pc = "start"
    /\ \E qs \in QuestionListsOf({"QA", "QC", "QE"}), cs \in {{"c2"}, {"c1", "c2"}},
          us \in {{}, {<<"c1", "u1">>}}, l \in {Absent, L0, L1} :
         db = Store(qs, cs, us, l)
    /\ request \in Requests
    /\ IdleNorm /\ IdleScan /\ IdleRank /\ IdleRoute

Next ==
    \/ ParseRequest
    \/ GetUserLearningState
    \/ PrepareScan
    \/ ScanStep
    \/ ScanReturn
    \/ Group
    \/ Sort
    \/ TruncateShuffle
    \/ ReturnGroups
    \/ Respond
    \/ InternalError

Spec == Init /\ [][Next]_vars

(***************************************************************************)
(* Properties of split_tags (under SpecNorm).                              *)
(***************************************************************************)

\* C3: for every input, the set split_tags returns holds no word of the stopword
\* list.
C3_NoStopwordInOutput == pc # "norm" => words \cap STOPWORDS = {}

\* C4: normalisation is idempotent: the returned words, re-fed as single-word
\* tags, give the same set.
C4_Idempotent == pc = "renormalized" => again = words

\* a tag that is one word already in its canonical characters
PlainWord(t) == t # <<>> /\ TagWords(t) = <<t>>

\* what the claim says of a single plain word that is no stopword
ExpectedSingular(t) ==
    IF Len(t) > 3 /\ t[Len(t)] = "s" THEN {SubSeq(t, 1, Len(t) - 1)} ELSE {t}

\* C5 as stated: "cats" gives {"cat"}, "gas" gives {"ga"}, "as" gives {}.
C5_AsStated ==
    pc # "norm" =>
        /\ tags = <<T_cats>> => words = {W_cat}
        /\ tags = <<T_gas>> => words = {W_ga}
        /\ tags = <<T_as>> => words = {}

\* C5 (amended): only a word longer than 3 that ends in "s" loses its last
\* character: "cats" gives {"cat"}, "gas" (length 3) stays {"gas"}, and the
\* stopword "as" gives {}.
C5_Singularization ==
    pc # "norm" =>
        /\ tags = <<T_cats>> => words = {W_cat}
        /\ tags = <<T_gas>> => words = {W_gas}
        /\ tags = <<T_as>> => words = {}
        /\ (Len(tags) = 1 /\ PlainWord(tags[1]) /\ tags[1] \notin STOPWORDS)
              => words = ExpectedSingular(tags[1])

C5_Witness == pc = "normalized" /\ tags = <<T_gas>> /\ words = {W_gas}

(***************************************************************************)
(* Properties of find_relevant_questions (under SpecScan).                 *)
(***************************************************************************)
\* the effective tags of the i-th streamed question (the store never changes)
EffectiveOf(i) == get_effective_tags(DocOf(db.questions[i]))

Curriculum == args.course_tags \cup args.unit_tags

\* |(effective n dislikedTags) \ curriculumTags|, as the specification writes it
DislikedCount(eff) == Cardinality((eff \cap args.disliked_tags) \ Curriculum)

MatchCount(eff) == Cardinality(eff \cap Curriculum)

DislikeRatioAbove(eff) ==
    DislikedCount(eff) * args.disliked_threshold.den
        > args.disliked_threshold.num * Cardinality(eff)

DislikeRatioEqual(eff) ==
    DislikedCount(eff) * args.disliked_threshold.den
        = args.disliked_threshold.num * Cardinality(eff)

\* C6: a question with effective tags is rejected by the dislike filter exactly
\* when |(effective n disliked) \ curriculum| / |effective| is strictly greater
\* than dislikedThreshold; at equality it is retained by this filter.
C6_DislikeFilter ==
    \A i \in 1..Len(outcome) :
        LET eff == EffectiveOf(i)
        IN  eff # {} => (outcome[i] = "too_many_disliked" <=> DislikeRatioAbove(eff))

\* a question whose dislike ratio is exactly the default 0.4 passed the filter
C6_Witness ==
    \E i \in 1..Len(outcome) :
        LET eff == EffectiveOf(i)
        IN  /\ args.disliked_threshold = DefaultDislikedThreshold
            /\ DislikedCount(eff) > 0
            /\ DislikeRatioEqual(eff)
            /\ outcome[i] = "matched"

\* the question reaches the match filter of lines 116-120
ReachesMatchFilter(eff) ==
    eff # {} /\ ~DislikeRatioAbove(eff) /\ Curriculum # {}

MatchRatioBelow(eff) ==
    MatchCount(eff) * args.match_threshold.den
        < args.match_threshold.num * Cardinality(Curriculum)

\* C7: a question that reaches the curriculum-match filter is rejected by it
\* exactly when |effective n curriculum| / |curriculum| is strictly less than
\* matchThreshold; at equality it is retained and becomes a candidate.
C7_MatchFilter ==
    \A i \in 1..Len(outcome) :
        LET eff == EffectiveOf(i)
        IN  /\ ReachesMatchFilter(eff) =>
                  /\ outcome[i] = "match_too_low" <=> MatchRatioBelow(eff)
                  /\ outcome[i] = "matched" <=> ~MatchRatioBelow(eff)
            /\ outcome[i] = "match_too_low" => ReachesMatchFilter(eff)

\* a question whose match ratio is exactly the default 0.5 was retained
C7_Witness ==
    \E i \in 1..Len(outcome) :
        LET eff == EffectiveOf(i)
        IN  /\ args.match_threshold = DefaultMatchThreshold
            /\ MatchCount(eff) > 0
            /\ MatchCount(eff) * args.match_threshold.den
                  = args.match_threshold.num * Cardinality(Curriculum)
            /\ outcome[i] = "matched"

Emitted(i) ==
    \/ outcome[i] = "matched"
    \/ \E j \in 1..Len(matched) : matched[j].question_id = QuestionId(i)

\* C8 as stated: for every threshold the function accepts, a question whose
\* effective tags share no word with curriculumTags is never emitted.
C8_AsStated ==
    \A i \in 1..Len(outcome) : MatchCount(EffectiveOf(i)) = 0 => ~Emitted(i)

\* C8 (amended): whenever matchThreshold > 0, a question whose effective tags
\* share no word with curriculumTags (empty curriculumTags included) is never
\* emitted, whatever the liked, disliked, answered and subscribed sets.
C8_NoOverlapNeverEmitted ==
    args.match_threshold.num > 0 =>
        \A i \in 1..Len(outcome) : MatchCount(EffectiveOf(i)) = 0 => ~Emitted(i)

\* a question with liked words and no curriculum word was rejected by the match filter
C8_Witness ==
    \E i \in 1..Len(outcome) :
        LET eff == EffectiveOf(i)
        IN  /\ args.match_threshold.num > 0
            /\ MatchCount(eff) = 0
            /\ eff \cap args.liked_tags # {}
            /\ outcome[i] = "match_too_low"

Abs(x) == IF x < 0 THEN -x ELSE x

\* b hundredths is 2 * s / n rounded to two decimals
IsLikedBoost(b, s, n) == 2 * Abs(200 * s - b * n) <= n

\* the boosts and the penalty of the i-th streamed question, in hundredths
BoostsOf(i) ==
    LET q == DocOf(db.questions[i])
    IN  (IF q.course \in args.subscribed_courses THEN 100 ELSE 0)
          + (IF q.course = args.reference_course_id THEN 100 ELSE 0)
          + (IF args.reference_unit_id \notin {None, ""} /\ q.unit = args.reference_unit_id
             THEN 100 ELSE 0)
          - (IF QuestionId(i) \in args.answered_questions THEN 100 ELSE 0)

\* the arguments of the end-to-end scenario: liked {algebra}, no dislikes,
\* course tags {algebra, math}, no unit tags, the thresholds of the route
InScenario ==
    /\ args.liked_tags = {W_algebra}
    /\ args.disliked_tags = {}
    /\ args.course_tags = {W_algebra, W_math}
    /\ args.unit_tags = {}
    /\ args.match_threshold = DefaultMatchThreshold
    /\ args.disliked_threshold = DefaultDislikedThreshold

\* the scenario's question: tagged "Algebra Basics", of a course without boosts,
\* not answered
IsScenarioQuestion(i) ==
    /\ db.questions[i] = "QA"
    /\ EffectiveOf(i) = {W_algebra, W_basic}
    /\ BoostsOf(i) = 0

\* C12: every emitted candidate carries score = |effective n likedTags| and
\* priority = round(2 * score / |effective|, 2) + 1 if its course is subscribed
\* + 1 if its course is the reference course + 1 if the reference unit is set
\* and is its unit - 1 if it is answered; likedBoost lies in 0..2; an answered
\* question that passes the filters is still emitted; in the end-to-end scenario
\* the question is retained with priority 1.0.
C12_ScoreAndPriority ==
    /\ \A j \in 1..Len(matched) :
          LET i == matched[j].question_id[2]
              eff == EffectiveOf(i)
              s == Cardinality(eff \cap args.liked_tags)
              n == Cardinality(eff)
          IN  /\ i \in 1..Len(outcome)
              /\ outcome[i] = "matched"
              /\ n > 0
              /\ matched[j].score = s
              /\ \E b \in 0..200 :
                    /\ IsLikedBoost(b, s, n)
                    /\ matched[j].priority = b + BoostsOf(i)
    /\ \A i \in 1..Len(outcome) :
          LET eff == EffectiveOf(i)
          IN  /\ (/\ QuestionId(i) \in args.answered_questions
                  /\ ReachesMatchFilter(eff)
                  /\ ~MatchRatioBelow(eff))
                    => \E j \in 1..Len(matched) : matched[j].question_id = QuestionId(i)
              /\ (InScenario /\ IsScenarioQuestion(i))
                    => \E j \in 1..Len(matched) :
                          /\ matched[j].question_id = QuestionId(i)
                          /\ matched[j].score = 1
                          /\ matched[j].priority = 100

\* the scan ended on the scenario: its question was emitted with priority 1.0
\* after an answered question that was emitted with the penalty
C12_Witness ==
    /\ pc = "scanned"
    /\ InScenario
    /\ \E i \in 1..Len(outcome) :
          /\ IsScenarioQuestion(i)
          /\ \E j \in 1..Len(matched) :
                matched[j].question_id = QuestionId(i) /\ matched[j].priority = 100
    /\ \E j \in 1..Len(matched) :
          /\ matched[j].question_id \in args.answered_questions
          /\ matched[j].priority < 100 * (matched[j].score + 3)

(***************************************************************************)
(* Properties of group_and_rank (under SpecRank).                          *)
(***************************************************************************)
RECURSIVE SumField(_, _, _)
\* the sum of field f ("priority" or "score") over the items of key k
SumField(items, k, f) ==
    IF items = <<>>
    THEN 0
    ELSE (IF KeyOf(Head(items)) = k
          THEN (IF f = "priority" THEN Head(items).priority ELSE Head(items).score)
          ELSE 0)
         + SumField(Tail(items), k, f)

\* the place of the group of key k in the insertion order
PlaceOf(k) == CHOOSE i \in 1..Len(grouped) : KeyOf(grouped[i]) = k

IsSorted == pc \in {"sorted", "shuffled", "ranked"}

\* C9: before the shuffle the groups stand by descending summed priority, ties
\* by descending summed score, and groups equal in both keep the order in which
\* their first candidate was met.
C9_SortOrder ==
    IsSorted =>
        /\ Len(sorted_groups) = Len(grouped)
        /\ Range(sorted_groups) = Range(grouped)
        /\ \A i \in 1..Len(grouped) :
              /\ grouped[i].priority = SumField(matched, KeyOf(grouped[i]), "priority")
              /\ grouped[i].total_score = SumField(matched, KeyOf(grouped[i]), "score")
        /\ \A i, j \in 1..Len(sorted_groups) :
              i < j =>
                LET a == sorted_groups[i]
                    b == sorted_groups[j]
                IN  \/ a.priority > b.priority
                    \/ a.priority = b.priority /\ a.total_score > b.total_score
                    \/ /\ a.priority = b.priority
                       /\ a.total_score = b.total_score
                       /\ PlaceOf(KeyOf(a)) < PlaceOf(KeyOf(b))

\* the sort moved a group of higher score before an earlier group of the same
\* priority, and left two groups equal in both in their insertion order
C9_Witness ==
    /\ pc = "sorted"
    /\ \E i, j \in 1..Len(grouped) :
          /\ i < j
          /\ grouped[i].priority = grouped[j].priority
          /\ grouped[i].total_score < grouped[j].total_score
    /\ \E i, j \in 1..Len(sorted_groups) :
          /\ i < j
          /\ sorted_groups[i].priority = sorted_groups[j].priority
          /\ sorted_groups[i].total_score = sorted_groups[j].total_score

Max(a, b) == IF a > b THEN a ELSE b
Min(a, b) == IF a < b THEN a ELSE b

\* C10: for every integer top_k the keys returned are exactly those of the first
\* top_k groups of the sorted order (all groups when fewer exist), at most top_k
\* of them, each with its question list unchanged.
C10_TopKMembership ==
    pc = "ranked" =>
        LET n == Min(Max(request.top_k, 0), Len(sorted_groups))
        IN  /\ Len(result) <= Max(request.top_k, 0)
            /\ { KeyOf(result[i]) : i \in 1..Len(result) }
                  = { KeyOf(sorted_groups[i]) : i \in 1..n }
            /\ \A i \in 1..Len(result) :
                  \E j \in 1..n :
                      /\ KeyOf(sorted_groups[j]) = KeyOf(result[i])
                      /\ sorted_groups[j].questions = result[i].questions

IsGrouped == pc \in {"grouped", "sorted", "shuffled", "ranked"}

\* the question ids of the candidates of key k, in the order of the scan
RECURSIVE IdsOfKey(_, _)
IdsOfKey(items, k) ==
    IF items = <<>>
    THEN <<>>
    ELSE (IF KeyOf(Head(items)) = k THEN <<Head(items).question_id>> ELSE <<>>)
            \o IdsOfKey(Tail(items), k)

\* C11: the candidates are grouped by (courseId, unitId) so that the questions
\* of one course that have no unit (field absent, null or otherwise not set)
\* form a single group, and every candidate's question id stands in exactly one
\* group, in the order of the scan.
C11_UnitlessInOneGroup ==
    IsGrouped =>
        /\ \A i, j \in 1..Len(grouped) :
              (/\ grouped[i].course_id = grouped[j].course_id
               /\ Falsy(grouped[i].unit_id)
               /\ Falsy(grouped[j].unit_id)) => i = j
        /\ \A m \in 1..Len(matched) :
              Cardinality({ i \in 1..Len(grouped) :
                              matched[m].question_id \in Range(grouped[i].questions) }) = 1
        /\ \A i \in 1..Len(grouped) :
              grouped[i].questions = IdsOfKey(matched, KeyOf(grouped[i]))

(***************************************************************************)
(* Properties of the route (under Spec).                                   *)
(***************************************************************************)
ScanFetchFailed == fault # <<>> /\ fault[1] \in {"question", "course", "unit"}

\* C1: a fetch that fails during the scan costs only that question: the scan
\* goes on and the request does not end in an error.
C1_FetchFailureSkipsQuestion ==
    ScanFetchFailed => pc # "raised" /\ response.status # 500

\* uid and course_id present, the learning record present, no read failed
Admitted ==
    /\ ~Falsy(request.uid)
    /\ ~Falsy(request.course_id)
    /\ ~NoUserData(LearningGet(request.uid, request.course_id))
    /\ fault = <<>>

CourseMissing == ~CourseGet(request.course_id).exists

UnitMissing ==
    /\ request.useUnits
    /\ ~Falsy(request.unit_id)
    /\ ~UnitGet(request.course_id, request.unit_id).exists

\* C2 as stated: with the course document (or, with useUnits, the unit document)
\* absent, the caller receives a not-found result.
C2_AsStated ==
    (pc = "done" /\ Admitted /\ (CourseMissing \/ UnitMissing))
        => response.status = 404

\* C2 (amended): an absent course or unit document is no error: it gives an
\* empty tag set and, when no read fails, a success response, whose list is
\* empty when the curriculum tags are empty; the not-found result is given only
\* when the learning record is absent or empty.
C2_AbsentDocumentIsSuccess ==
    pc = "done" =>
        /\ (Admitted /\ (CourseMissing \/ UnitMissing)) =>
              /\ response.status = 200
              /\ CourseMissing => args.course_tags = {}
              /\ UnitMissing => args.unit_tags = {}
              /\ Curriculum = {} => response.body = <<>>
        /\ response.status = 404 =>
              NoUserData(LearningGet(request.uid, request.course_id))

\* the course document is absent and the request was answered with a success
C2_Witness ==
    /\ pc = "done"
    /\ Admitted
    /\ CourseMissing
    /\ response.status = 200

MissingFields == Falsy(request.uid) \/ Falsy(request.course_id)

LearningNotFound == ~LearningGet(request.uid, request.course_id).exists

\* C13: a request without uid or course_id is answered with a client error
\* before any read of the document store and before any ranking computation; a
\* request with both fields whose learning record is not found is answered with
\* a not-found error before any tag fetch and before the question scan.
C13_ValidationBeforeReads ==
    /\ MissingFields =>
          /\ pc \in {"start", "done"}
          /\ reads = {}
          /\ fault = <<>>
          /\ IdleScan
          /\ IdleRank
          /\ pc = "done" => response = ErrorResponse(400)
    /\ response.status = 400 => MissingFields
    /\ (~MissingFields /\ LearningNotFound) =>
          /\ pc \in {"start", "validated", "raised", "done"}
          /\ reads \subseteq {"learning"}
          /\ IdleScan
          /\ IdleRank
          /\ (pc = "done" /\ fault = <<>>) =>
                response = ErrorResponse(404) /\ reads = {"learning"}

\* a complete request without a learning record was answered 404
C13_Witness ==
    /\ pc = "done"
    /\ ~MissingFields
    /\ LearningNotFound
    /\ response.status = 404
    /\ reads = {"learning"}

\* the scan was called: the route's arguments always name the reference course
ScanCalled == args # NoArgs

\* C14: with useUnits false or omitted the unit_id of the request has no
\* influence: the unit tags are empty, the unit document of the request is not
\* read, the scan receives the arguments it would receive for any other unit_id,
\* and no candidate receives the same-unit boost.
C14_UnitIdIgnoredWithoutUseUnits ==
    ~request.useUnits =>
        /\ "reference_unit" \notin reads
        /\ fault # <<>> => fault[1] # "unit_tags"
        /\ ScanCalled =>
              /\ args.unit_tags = {}
              /\ args.reference_unit_id = None
              /\ \A u \in {None, "", "u1"} :
                    args = RouteArgs([request EXCEPT !.unit_id = u],
                                     LearningGet(request.uid, request.course_id))
              /\ \A j \in 1..Len(matched) :
                    LET i == matched[j].question_id[2]
                        q == DocOf(db.questions[i])
                        eff == EffectiveOf(i)
                    IN  \E b \in 0..200 :
                          /\ IsLikedBoost(b, Cardinality(eff \cap args.liked_tags),
                                          Cardinality(eff))
                          /\ matched[j].priority =
                                b + (IF q.course \in args.subscribed_courses THEN 100 ELSE 0)
                                  + (IF q.course = request.course_id THEN 100 ELSE 0)
                                  - (IF QuestionId(i) \in args.answered_questions
                                     THEN 100 ELSE 0)

\* a request with unit_id "u1" and useUnits false was answered with a group
\* of that very unit in the list
C14_Witness ==
    /\ pc = "done"
    /\ ~request.useUnits
    /\ request.unit_id = "u1"
    /\ response.status = 200
    /\ \E j \in 1..Len(matched) : matched[j].unit_id = "u1"
    /\ \E g \in 1..Len(response.body) : response.body[g].unit_id = "u1"

=============================================================================
